---------------------------- MODULE Spec2Model ----------------------------
(***************************************************************************)
(* Data-access layer of End-of-PCOS: the Provider roster manager and the   *)
(* Patient record aggregator of src/database.py, driven by the routes of   *)
(* src/app.py.  Every request is a process; every call to the document     *)
(* store is one atomic step, so steps of different requests interleave.    *)
(***************************************************************************)
EXTENDS Integers, Sequences, FiniteSets, TLC

VARIABLES
    provColl,            \* Providers namespace: names of the collections that exist
    provDocs,            \* Providers namespace: documents of each collection, in natural order
    patients,            \* Patients namespace: collection name -> its documents by entry_type
    pc,                  \* position of each request
    op,                  \* route a request is serving
    user_id,             \* Provider.user_id of the request
    patient_id,          \* patient_id argument of the request
    patient_key,         \* patient_key argument of the request
    collections_list,    \* local of Provider.__init__
    patient_list_exists, \* local of Provider.__init__
    patient_list,        \* local of add_patient / drop_patient
    patient_ids,         \* local of patients_overview
    response,            \* what the request returned last
    call,                \* history: the current or last Provider method call of each request
    nreq,                \* history: number of requests each session has started
    raced,               \* history: providers whose first-time construction was raced
    result               \* what the last Patient aggregator call returned

vars == <<provColl, provDocs, patients, pc, op, user_id, patient_id, patient_key,
          collections_list, patient_list_exists, patient_list, patient_ids,
          response, call, nreq, raced, result>>

provVars == <<provColl, provDocs, pc, op, user_id, patient_id, patient_key,
              collections_list, patient_list_exists, patient_list, patient_ids,
              response, call, nreq, raced>>

----------------------------------------------------------------------------
(* Bounds *)

MaxRequests == 3

Sessions     == {"s1", "s2"}
ProviderIds  == {"u1"}
PatientIds   == {"p1", "p2", "p3"}
Keys         == {"k1", "k2"}

----------------------------------------------------------------------------
(* Python dict values: a mapping is a function on its set of keys *)

EmptyDict == [x \in {} |-> "k1"]

DictSet(d, k, v) == [x \in (DOMAIN d) \cup {k} |-> IF x = k THEN v ELSE d[x]]

DictPop(d, k) == [x \in (DOMAIN d) \ {k} |-> d[x]]

\* the seed document {'document_type': 'patient_list', 'patient_list': {}}
SeedDocument == EmptyDict

----------------------------------------------------------------------------
(* The document store, Providers namespace.  Every document written to a   *)
(* provider's collection is tagged document_type = patient_list, so a      *)
(* document is represented by its patient_list field and the filter        *)
(* {'document_type': 'patient_list'} matches every document.  find_one and *)
(* replace_one act on the first match in natural (insertion) order.        *)

find_one(u) == IF provDocs[u] = <<>> THEN <<>> ELSE <<provDocs[u][1]>>

insert_one(docs, u, d) == [docs EXCEPT ![u] = Append(@, d)]

\* a replace that is written as an insert of the new document
replace_one_as_insert(docs, u, d) == [docs EXCEPT ![u] = Append(@, d)]

replace_one(docs, u, d) ==
    IF docs[u] = <<>> THEN docs ELSE [docs EXCEPT ![u] = [@ EXCEPT ![1] = d]]

\* Provider.get_patient_list: find_one(doc_filter)['patient_list']
HasRoster(u) == find_one(u) # <<>>
get_patient_list(u) == find_one(u)[1]

----------------------------------------------------------------------------
(* The document store, Patients namespace *)

\* Patient.verify_patient_credentials(patient_id, patient_key, encrypted=False)
verify_patient_credentials(p, k) == p \in DOMAIN patients


\* Patient.__init__ then get_first_name / get_last_name: subscripting the
\* result of find_one({'entry_type': 'patient_details'}), None when absent
HasDetails(p) == p \in DOMAIN patients /\ patients[p].patient_details # <<>>

----------------------------------------------------------------------------
(* Requests *)

\* flash('Invalid patient credentials!') and the redirect back to the form
InvalidCredentials == "Invalid patient credentials!"

Rendered(status) == [status |-> status, records |-> {}]

NoCall == [op |-> "none", user |-> "none", patient |-> "none", key |-> "none",
           before |-> EmptyDict, after |-> EmptyDict, status |-> "none"]

RECURSIVE SumOver(_, _)
SumOver(f, S) ==
    IF S = {} THEN 0
    ELSE LET x == CHOOSE y \in S : TRUE IN f[x] + SumOver(f, S \ {x})

\* the requests started so far
Started == SumOver(nreq, Sessions)

\* two requests are inside Provider.__init__ for u, both having listed the
\* collections while u was not among them
InitRacing(u) ==
    \E r1, r2 \in Sessions :
        /\ r1 # r2
        /\ \A r \in {r1, r2} :
              /\ pc[r] \in {"init_find", "init_create", "init_insert1", "init_insert2"}
              /\ user_id[r] = u
              /\ u \notin collections_list[r]

\* the history of raced constructions, kept by every step
NoteRace == raced' = raced \cup {u \in ProviderIds : InitRacing(u)'}

\* the locals of a request that has returned
Return(r, resp) ==
    /\ pc' = [pc EXCEPT ![r] = "idle"]
    /\ response' = [response EXCEPT ![r] = resp]
    /\ collections_list' = [collections_list EXCEPT ![r] = {}]
    /\ patient_list_exists' = [patient_list_exists EXCEPT ![r] = FALSE]
    /\ patient_list' = [patient_list EXCEPT ![r] = EmptyDict]
    /\ patient_ids' = [patient_ids EXCEPT ![r] = {}]

Begin(r, route, u, p, k) ==
    /\ pc[r] = "idle"
    /\ Started < MaxRequests
    /\ nreq' = [nreq EXCEPT ![r] = @ + 1]
    /\ op' = [op EXCEPT ![r] = route]
    /\ user_id' = [user_id EXCEPT ![r] = u]
    /\ patient_id' = [patient_id EXCEPT ![r] = p]
    /\ patient_key' = [patient_key EXCEPT ![r] = k]
    /\ call' = [call EXCEPT ![r] = NoCall]

\* the method a route calls on the Provider it has constructed
MethodPc(r) ==
    CASE op[r] = "add_patient"  -> "add_read"
      [] op[r] = "drop_patient" -> "drop_read"
      [] OTHER                  -> "overview_ids"

\* app.add_patient line 263: the guard of the POST branch
AddPatientUnverified(p, k) == TRUE
AddPatientVerified(p, k) == verify_patient_credentials(p, k)

\* POST /add_patient
AddPatientRoute(r) ==
    \E u \in ProviderIds, p \in PatientIds, k \in Keys :
        /\ Begin(r, "add_patient", u, p, k)
        /\ IF AddPatientVerified(p, k)
           THEN /\ pc' = [pc EXCEPT ![r] = "init_list"]
                /\ response' = [response EXCEPT ![r] = Rendered("pending")]
                /\ UNCHANGED <<collections_list, patient_list_exists,
                               patient_list, patient_ids>>
           ELSE Return(r, Rendered(InvalidCredentials))
        /\ UNCHANGED <<provColl, provDocs, patients, result>>
        /\ NoteRace

\* GET /drop_patient?patient_id=p
DropPatientRoute(r) ==
    \E u \in ProviderIds, p \in PatientIds :
        /\ Begin(r, "drop_patient", u, p, "none")
        /\ pc' = [pc EXCEPT ![r] = "init_list"]
        /\ response' = [response EXCEPT ![r] = Rendered("pending")]
        /\ UNCHANGED <<provColl, provDocs, patients, result,
                       collections_list, patient_list_exists, patient_list,
                       patient_ids>>
        /\ NoteRace

\* GET /patients, and GET /drop_patient without a patient_id
PatientsRoute(r) ==
    \E u \in ProviderIds :
        /\ Begin(r, "patients", u, "none", "none")
        /\ pc' = [pc EXCEPT ![r] = "init_list"]
        /\ response' = [response EXCEPT ![r] = Rendered("pending")]
        /\ UNCHANGED <<provColl, provDocs, patients, result,
                       collections_list, patient_list_exists, patient_list,
                       patient_ids>>
        /\ NoteRace

reqArgs == <<op, user_id, patient_id, patient_key, nreq>>

----------------------------------------------------------------------------
(* Provider.__init__ *)

\* collections_list = self.client.list_collection_names()
InitListCollections(r) ==
    /\ pc[r] = "init_list"
    /\ collections_list' = [collections_list EXCEPT ![r] = provColl]
    /\ pc' = [pc EXCEPT ![r] = "init_find"]
    /\ UNCHANGED <<provColl, provDocs, patients, reqArgs, patient_list_exists,
                   patient_list, patient_ids, response, call, result>>
    /\ NoteRace

\* where __init__ goes once the collection exists: the second insert_one
\* when patient_list_exists is false
AfterCreate(r, exists) == IF ~exists THEN "init_insert2" ELSE MethodPc(r)

\* patient_list_exists = find_one({'document_type': 'patient_list'}) is not None
InitFindOne(r) ==
    /\ pc[r] = "init_find"
    /\ patient_list_exists' = [patient_list_exists EXCEPT ![r] = HasRoster(user_id[r])]
    /\ pc' = [pc EXCEPT ![r] =
                 IF user_id[r] \notin collections_list[r]
                 THEN "init_create"
                 ELSE AfterCreate(r, HasRoster(user_id[r]))]
    /\ UNCHANGED <<provColl, provDocs, patients, reqArgs, collections_list,
                   patient_list, patient_ids, response, call, result>>
    /\ NoteRace

\* self.client.create_collection(self.user_id): CollectionInvalid when the
\* collection exists already
InitCreateCollection(r) ==
    /\ pc[r] = "init_create"
    /\ IF user_id[r] \in provColl
       THEN /\ Return(r, Rendered("CollectionInvalid"))
            /\ UNCHANGED provColl
       ELSE /\ provColl' = provColl \cup {user_id[r]}
            /\ pc' = [pc EXCEPT ![r] = "init_insert1"]
            /\ UNCHANGED <<collections_list, patient_list_exists, patient_list,
                           patient_ids, response>>
    /\ UNCHANGED <<provDocs, patients, reqArgs, call, result>>
    /\ NoteRace

\* the insert_one of the new-collection branch
InitInsertFirst(r) ==
    /\ pc[r] = "init_insert1"
    /\ provDocs' = insert_one(provDocs, user_id[r], SeedDocument)
    /\ provColl' = provColl \cup {user_id[r]}
    /\ pc' = [pc EXCEPT ![r] = AfterCreate(r, patient_list_exists[r])]
    /\ UNCHANGED <<patients, reqArgs, collections_list, patient_list_exists,
                   patient_list, patient_ids, response, call, result>>
    /\ NoteRace

\* the insert_one of the branch "if not patient_list_exists"
InitInsertSecond(r) ==
    /\ pc[r] = "init_insert2"
    /\ provDocs' = insert_one(provDocs, user_id[r], SeedDocument)
    /\ provColl' = provColl \cup {user_id[r]}
    /\ pc' = [pc EXCEPT ![r] = MethodPc(r)]
    /\ UNCHANGED <<patients, reqArgs, collections_list, patient_list_exists,
                   patient_list, patient_ids, response, call, result>>
    /\ NoteRace


----------------------------------------------------------------------------
(* Provider.add_patient, Provider.drop_patient, Provider.patients_overview.  *)
(* get_patient_list subscripts the result of find_one: TypeError on None.    *)

StartCall(r, before) ==
    [op |-> op[r], user |-> user_id[r], patient |-> patient_id[r],
     key |-> patient_key[r], before |-> before, after |-> before,
     status |-> "pending"]

\* what list_patients() returns: the patient_list of the first roster document
Roster(docs, u) == IF docs[u] = <<>> THEN EmptyDict ELSE docs[u][1]

\* patient_list = self.get_patient_list(); patient_list[patient_id] = patient_key
AddPatientRead(r) ==
    /\ pc[r] = "add_read"
    /\ IF HasRoster(user_id[r])
       THEN /\ patient_list' = [patient_list EXCEPT ![r] =
                   DictSet(get_patient_list(user_id[r]), patient_id[r], patient_key[r])]
            /\ call' = [call EXCEPT ![r] = StartCall(r, get_patient_list(user_id[r]))]
            /\ pc' = [pc EXCEPT ![r] = "add_write"]
            /\ UNCHANGED <<collections_list, patient_list_exists, patient_ids, response>>
       ELSE /\ Return(r, Rendered("TypeError"))
            /\ call' = [call EXCEPT ![r] = [StartCall(r, EmptyDict) EXCEPT !.status = "TypeError"]]
    /\ UNCHANGED <<provColl, provDocs, patients, reqArgs, result>>
    /\ NoteRace

\* replace_one({'document_type': 'patient_list'}, {..., 'patient_list': patient_list})
\* and the route's render_template
AddPatientWrite(r) ==
    /\ pc[r] = "add_write"
    /\ provDocs' = replace_one(provDocs, user_id[r], patient_list[r])
    /\ call' = [call EXCEPT ![r] = [@ EXCEPT !.after = Roster(provDocs', user_id[r]),
                                            !.status = "returned"]]
    /\ Return(r, Rendered("add_patient.html"))
    /\ UNCHANGED <<provColl, patients, reqArgs, result>>
    /\ NoteRace

\* patient_list = self.get_patient_list(); patient_list.pop(patient_id):
\* dict.pop without a default raises KeyError, which the route does not catch
DropPatientRead(r) ==
    /\ pc[r] = "drop_read"
    /\ IF ~HasRoster(user_id[r])
       THEN /\ Return(r, Rendered("TypeError"))
            /\ call' = [call EXCEPT ![r] = [StartCall(r, EmptyDict) EXCEPT !.status = "TypeError"]]
       ELSE IF patient_id[r] \notin DOMAIN get_patient_list(user_id[r])
       THEN /\ Return(r, Rendered("KeyError"))
            /\ call' = [call EXCEPT ![r] =
                   [StartCall(r, get_patient_list(user_id[r])) EXCEPT !.status = "KeyError"]]
       ELSE /\ patient_list' = [patient_list EXCEPT ![r] =
                   DictPop(get_patient_list(user_id[r]), patient_id[r])]
            /\ call' = [call EXCEPT ![r] = StartCall(r, get_patient_list(user_id[r]))]
            /\ pc' = [pc EXCEPT ![r] = "drop_write"]
            /\ UNCHANGED <<collections_list, patient_list_exists, patient_ids, response>>
    /\ UNCHANGED <<provColl, provDocs, patients, reqArgs, result>>
    /\ NoteRace

\* replace_one and the route's redirect('/patients')
DropPatientWrite(r) ==
    /\ pc[r] = "drop_write"
    /\ provDocs' = replace_one(provDocs, user_id[r], patient_list[r])
    /\ call' = [call EXCEPT ![r] = [@ EXCEPT !.after = Roster(provDocs', user_id[r]),
                                            !.status = "returned"]]
    /\ Return(r, Rendered("redirect /patients"))
    /\ UNCHANGED <<provColl, patients, reqArgs, result>>
    /\ NoteRace

\* patient_ids = list(self.get_patient_list().keys())
OverviewIds(r) ==
    /\ pc[r] = "overview_ids"
    /\ IF HasRoster(user_id[r])
       THEN /\ patient_ids' = [patient_ids EXCEPT ![r] = DOMAIN get_patient_list(user_id[r])]
            /\ call' = [call EXCEPT ![r] = StartCall(r, get_patient_list(user_id[r]))]
            /\ pc' = [pc EXCEPT ![r] = "overview_keys"]
            /\ UNCHANGED <<collections_list, patient_list_exists, patient_list, response>>
       ELSE /\ Return(r, Rendered("TypeError"))
            /\ call' = [call EXCEPT ![r] = [StartCall(r, EmptyDict) EXCEPT !.status = "TypeError"]]
    /\ UNCHANGED <<provColl, provDocs, patients, reqArgs, result>>
    /\ NoteRace

\* patient_keys = list(self.get_patient_list().values()), a second read whose
\* values are never used, then one Patient per patient_id for the two names
OverviewKeys(r) ==
    /\ pc[r] = "overview_keys"
    /\ IF ~HasRoster(user_id[r]) \/ \E p \in patient_ids[r] : ~HasDetails(p)
       THEN /\ Return(r, Rendered("TypeError"))
            /\ call' = [call EXCEPT ![r] = [@ EXCEPT !.status = "TypeError"]]
       ELSE /\ Return(r, [status |-> "patients.html", records |-> patient_ids[r]])
            /\ call' = [call EXCEPT ![r] = [@ EXCEPT !.status = "returned"]]
    /\ UNCHANGED <<provColl, provDocs, patients, reqArgs, result>>
    /\ NoteRace

----------------------------------------------------------------------------
(* Specifications of the roster manager *)

NoResult == [op |-> "none", metric |-> "none", status |-> "none",
             range |-> <<>>, dates |-> <<>>, vals |-> <<>>, surveys |-> <<>>]

\* a collection of the Patients namespace: its documents by entry_type
Collection(details, lh, fsh, questions) ==
    [patient_details |-> details, lh_values |-> lh, fsh_values |-> fsh,
     questions |-> questions]

\* the patients the roster requests are tried with: p1 has a profile, p2 has
\* a collection without a patient_details document, p3 has no collection
RosterPatients ==
    [p \in {"p1", "p2"} |->
        Collection(IF p = "p1" THEN <<"details">> ELSE <<>>, <<>>, <<>>, <<>>)]

InitRoster ==
    /\ provColl = {}
    /\ provDocs = [u \in ProviderIds |-> <<>>]
    /\ pc = [r \in Sessions |-> "idle"]
    /\ op = [r \in Sessions |-> "none"]
    /\ user_id = [r \in Sessions |-> "none"]
    /\ patient_id = [r \in Sessions |-> "none"]
    /\ patient_key = [r \in Sessions |-> "none"]
    /\ collections_list = [r \in Sessions |-> {}]
    /\ patient_list_exists = [r \in Sessions |-> FALSE]
    /\ patient_list = [r \in Sessions |-> EmptyDict]
    /\ patient_ids = [r \in Sessions |-> {}]
    /\ response = [r \in Sessions |-> Rendered("none")]
    /\ call = [r \in Sessions |-> NoCall]
    /\ nreq = [r \in Sessions |-> 0]
    /\ raced = {}

Init ==
    /\ InitRoster
    /\ patients = RosterPatients
    /\ result = NoResult

Step(r) ==
    \/ AddPatientRoute(r)
    \/ DropPatientRoute(r)
    \/ PatientsRoute(r)
    \/ InitListCollections(r)
    \/ InitFindOne(r)
    \/ InitCreateCollection(r)
    \/ InitInsertFirst(r)
    \/ InitInsertSecond(r)
    \/ AddPatientRead(r)
    \/ AddPatientWrite(r)
    \/ DropPatientRead(r)
    \/ DropPatientWrite(r)
    \/ OverviewIds(r)
    \/ OverviewKeys(r)

\* requests of different sessions interleave at every call to the store
Next == \E r \in Sessions : Step(r)

Spec == Init /\ [][Next]_vars

\* one request at a time: a request starts only when no other is in flight
Quiet(r) == \A q \in Sessions \ {r} : pc[q] = "idle"

NextSeq ==
    \E r \in Sessions :
        \/ Quiet(r) /\ AddPatientRoute(r)
        \/ Quiet(r) /\ DropPatientRoute(r)
        \/ Quiet(r) /\ PatientsRoute(r)
        \/ InitListCollections(r)
        \/ InitFindOne(r)
        \/ InitCreateCollection(r)
        \/ InitInsertFirst(r)
        \/ InitInsertSecond(r)
        \/ AddPatientRead(r)
        \/ AddPatientWrite(r)
        \/ DropPatientRead(r)
        \/ DropPatientWrite(r)
        \/ OverviewIds(r)
        \/ OverviewKeys(r)

SpecSeq == Init /\ [][NextSeq]_vars


----------------------------------------------------------------------------
(* Properties of the roster manager *)

Returned(r, method) ==
    /\ pc[r] = "idle"
    /\ call[r].op = method
    /\ call[r].status = "returned"

Divergent(u) ==
    \E i, j \in DOMAIN provDocs[u] : provDocs[u][i] # provDocs[u][j]

\* C1: in a run of exactly two add_patient calls, made by two sessions for
\* the same provider and two distinct patients, interleaved in any order,
\* once both have returned the stored roster holds both patients with
\* their keys.
C1_BothAddsSurvive ==
    \A r1, r2 \in Sessions :
        ( /\ r1 # r2
          /\ Started = 2 /\ nreq[r1] = 1 /\ nreq[r2] = 1
          /\ Returned(r1, "add_patient") /\ Returned(r2, "add_patient")
          /\ call[r1].user = call[r2].user
          /\ call[r1].patient # call[r2].patient )
        => LET m == Roster(provDocs, call[r1].user)
           IN  \A r \in {r1, r2} :
                  /\ call[r].patient \in DOMAIN m
                  /\ m[call[r].patient] = call[r].key

\* C2: once two requests have raced to construct the Provider of a
\* previously unseen provider, no state holds two roster documents of that
\* provider whose patient mappings differ.
C2_NoDivergentRosters == \A u \in raced : ~Divergent(u)

\* C3: whenever no request is inside a construction, a provider whose
\* collection exists holds exactly one roster document, and that document
\* holds the empty mapping as long as no add_patient has run.
C3_SingleRosterDocument ==
    (\A r \in Sessions : pc[r] = "idle")
    => \A u \in provColl :
          /\ Len(provDocs[u]) = 1
          /\ (\A r \in Sessions : nreq[r] <= 1 /\ op[r] # "add_patient")
                => provDocs[u][1] = EmptyDict

\* C4: with requests served one at a time, add_patient(p, k) leaves a
\* roster that maps p to k and every other patient as before, so {p: k}
\* from the empty roster, and drop_patient(p) leaves the roster without p
\* and every other patient as before, so {} from {p: k}.
C4_AddThenDrop ==
    \A r \in Sessions :
        /\ Returned(r, "add_patient")
              => /\ DOMAIN call[r].after = DOMAIN call[r].before \cup {call[r].patient}
                 /\ call[r].after[call[r].patient] = call[r].key
                 /\ \A q \in DOMAIN call[r].before \ {call[r].patient} :
                       call[r].after[q] = call[r].before[q]
                 /\ call[r].before = EmptyDict
                       => call[r].after = (call[r].patient :> call[r].key)
        /\ Returned(r, "drop_patient")
              => /\ DOMAIN call[r].after = DOMAIN call[r].before \ {call[r].patient}
                 /\ \A q \in DOMAIN call[r].after : call[r].after[q] = call[r].before[q]
                 /\ DOMAIN call[r].before = {call[r].patient}
                       => call[r].after = EmptyDict

\* one session has added p1 to the empty roster, then the other has dropped
\* p1 again and the stored roster is empty
C4_Witness ==
    \E r1, r2 \in Sessions :
        /\ Returned(r1, "add_patient")
        /\ call[r1].before = EmptyDict
        /\ call[r1].after = ("p1" :> "k1")
        /\ Returned(r2, "drop_patient")
        /\ call[r2].patient = "p1"
        /\ call[r2].before = ("p1" :> "k1")
        /\ Roster(provDocs, "u1") = EmptyDict

\* C5: a drop_patient(p) that finds no entry for p ends with NotFoundError
\* and leaves the stored roster as it was.
C5_DropMissingNotFound ==
    \A r \in Sessions :
        ( /\ call[r].op = "drop_patient"
          /\ call[r].status \notin {"none", "pending"}
          /\ call[r].patient \notin DOMAIN call[r].before )
        => /\ call[r].status = "NotFoundError"
           /\ call[r].after = call[r].before

\* C6: a request to add (patient_id, key) that verify_patient_credentials
\* does not accept is answered with the invalid-credentials rejection
\* without any Provider call, and no stored roster ever holds an entry
\* that verify_patient_credentials does not accept.
C6_OnlyVerifiedEntries ==
    /\ \A u \in ProviderIds : \A i \in DOMAIN provDocs[u] :
          \A p \in DOMAIN provDocs[u][i] :
             verify_patient_credentials(p, provDocs[u][i][p])
    /\ \A r \in Sessions :
          (op[r] = "add_patient"
               /\ ~verify_patient_credentials(patient_id[r], patient_key[r]))
          => /\ pc[r] = "idle"
             /\ response[r].status = InvalidCredentials
             /\ call[r] = NoCall

\* one session was refused p3, which has no collection, while the roster
\* holds an entry another request has added
C6_Witness ==
    \E r \in Sessions :
        /\ op[r] = "add_patient"
        /\ patient_id[r] = "p3"
        /\ response[r].status = InvalidCredentials
        /\ DOMAIN Roster(provDocs, "u1") = {"p1"}

\* C7: for a patient whose collection exists, verify_patient_credentials
\* does not give the same answer for every key.
C7_KeyIsChecked ==
    \A p \in DOMAIN patients :
        \E k1, k2 \in Keys :
            verify_patient_credentials(p, k1) # verify_patient_credentials(p, k2)


----------------------------------------------------------------------------
(* The Patient record aggregator.  A date text MM-DD-YYYY is the tuple      *)
(* <<MM, DD, YYYY>>, whose order as text is the order of its fields from    *)
(* the left; a datetime is a record, ordered by year, month, day.  A lab    *)
(* value is stored as text and read with float(); a float is counted in     *)
(* tenths.  A mapping that keeps its order (a stored document, a Python     *)
(* dict) is the sequence of its <<key, value>> items.                       *)

MaxSeries  == 2
MaxSurveys == 3

Dates   == {<<12, 31, 2023>>, <<1, 15, 2024>>, <<3, 1, 2024>>}
Values  == {"2", "10", "3.5"}
Metrics == {"lh", "fsh"}

\* datetime.strptime(date, date_format) with date_format = '%m-%d-%Y'
strptime(date) == [year |-> date[3], month |-> date[1], day |-> date[2]]

\* datetime.strftime(date_format)
strftime(dt) == <<dt.month, dt.day, dt.year>>

\* datetime.__lt__
DatetimeLess(a, b) ==
    \/ a.year < b.year
    \/ a.year = b.year /\ a.month < b.month
    \/ a.year = b.year /\ a.month = b.month /\ a.day < b.day

\* str.__lt__ on two date texts of the fixed format
TextLess(a, b) ==
    \/ a[1] < b[1]
    \/ a[1] = b[1] /\ a[2] < b[2]
    \/ a[1] = b[1] /\ a[2] = b[2] /\ a[3] < b[3]

\* float(val)
float(val) ==
    CASE val = "2"   -> 20
      [] val = "3.5" -> 35
      [] val = "10"  -> 100

\* min(data) and max(data) of a non-empty list, left to right
RECURSIVE min(_)
min(data) ==
    IF Len(data) = 1 THEN data[1]
    ELSE LET m == min(Tail(data)) IN IF m < data[1] THEN m ELSE data[1]

RECURSIVE max(_)
max(data) ==
    IF Len(data) = 1 THEN data[1]
    ELSE LET m == max(Tail(data)) IN IF m > data[1] THEN m ELSE data[1]

\* find_one({'entry_type': ...}) on the patient's collection: the first
\* document of the type, or None
SeriesDocuments(p, metric) ==
    IF metric = "lh" THEN patients[p].lh_values ELSE patients[p].fsh_values

\* Patient._get_lh_data / Patient._get_fsh_data: subscripting None raises
\* TypeError
get_data_fails(p, metric) == SeriesDocuments(p, metric) = <<>>
get_data(p, metric) == SeriesDocuments(p, metric)[1]

keys(data)   == [i \in DOMAIN data |-> data[i][1]]
values(data) == [i \in DOMAIN data |-> data[i][2]]

RangeResult(metric, status, range) ==
    [NoResult EXCEPT !.op = "get_range", !.metric = metric,
                     !.status = status, !.range = range]

\* Patient.get_range(metric): the status "n/a" stands for ['n/a', 'n/a']
get_range(p, metric) ==
    IF get_data_fails(p, metric) THEN RangeResult(metric, "TypeError", <<>>)
    ELSE LET data == get_data(p, metric) IN
         IF data = <<>> THEN RangeResult(metric, "n/a", <<>>)
         ELSE LET floats == [i \in DOMAIN data |-> float(values(data)[i])]
              IN  RangeResult(metric, "range", <<min(floats), max(floats)>>)

\* Patient.get_chart(metric): the dates and vals handed to chart.line,
\* chart.varea and chart.scatter
get_chart(p, metric) ==
    IF get_data_fails(p, metric)
    THEN [NoResult EXCEPT !.op = "get_chart", !.metric = metric,
                          !.status = "TypeError"]
    ELSE LET data == get_data(p, metric) IN
         [NoResult EXCEPT !.op = "get_chart", !.metric = metric,
                          !.status = "chart",
                          !.dates = [i \in DOMAIN data |-> strptime(keys(data)[i])],
                          !.vals = [i \in DOMAIN data |-> float(values(data)[i])]]

\* questions[key] = value on a dict: a key that is present keeps its place
DictItemsSet(items, key, value) ==
    IF \E i \in DOMAIN items : items[i][1] = key
    THEN [i \in DOMAIN items |-> IF items[i][1] = key THEN <<key, value>> ELSE items[i]]
    ELSE Append(items, <<key, value>>)

\* the loop of _get_all_questions over the entries that find() returns
RECURSIVE questions_by_date(_, _)
questions_by_date(entries, questions) ==
    IF entries = <<>> THEN questions
    ELSE questions_by_date(Tail(entries),
             DictItemsSet(questions, strptime(entries[1].date), entries[1].questions))

Remove(items, i) == [j \in 1..(Len(items) - 1) |-> IF j < i THEN items[j] ELSE items[j + 1]]

\* sorted(questions.items(), reverse=True): the keys of a dict are distinct,
\* so the datetime decides every comparison
RECURSIVE sorted_reverse(_)
sorted_reverse(items) ==
    IF items = <<>> THEN <<>>
    ELSE LET i == CHOOSE k \in DOMAIN items :
                     \A j \in DOMAIN items : ~DatetimeLess(items[k][1], items[j][1])
         IN  <<items[i]>> \o sorted_reverse(Remove(items, i))

\* the same sort on the date texts, as they are stored
RECURSIVE sorted_reverse_text(_)
sorted_reverse_text(items) ==
    IF items = <<>> THEN <<>>
    ELSE LET i == CHOOSE k \in DOMAIN items :
                     \A j \in DOMAIN items :
                        ~TextLess(strftime(items[k][1]), strftime(items[j][1]))
         IN  <<items[i]>> \o sorted_reverse_text(Remove(items, i))

\* Patient._get_all_questions
get_all_questions_text_order(p) ==
    sorted_reverse_text(questions_by_date(patients[p].questions, <<>>))

get_all_questions(p) ==
    sorted_reverse(questions_by_date(patients[p].questions, <<>>))

\* the survey_dict of one item of get_surveys_overview
survey_dict(survey_key, survey_val) ==
    [date         |-> strftime(survey_key),
     period       |-> survey_val.on_period,
     flow_rate    |-> IF survey_val.on_period = "Yes" THEN survey_val.flow_rate ELSE "n/a",
     hair_changes |-> survey_val.hair,
     pain_level   |-> survey_val.pain]

\* Patient.get_surveys_overview
get_surveys_overview(p) ==
    LET surveys == get_all_questions(p) IN
    [NoResult EXCEPT !.op = "get_surveys_overview", !.status = "surveys",
                     !.surveys = [i \in DOMAIN surveys |->
                                     survey_dict(surveys[i][1], surveys[i][2])]]

\* the loop of get_last_period: the keys of the surveys on period, in the
\* order of _get_all_questions
RECURSIVE period_dates(_)
period_dates(surveys) ==
    IF surveys = <<>> THEN <<>>
    ELSE (IF surveys[1][2].on_period = "Yes" THEN <<surveys[1][1]>> ELSE <<>>)
         \o period_dates(Tail(surveys))

\* max(period_dates) of a non-empty list of datetimes, left to right
RECURSIVE max_datetime(_)
max_datetime(dts) ==
    IF Len(dts) = 1 THEN dts[1]
    ELSE LET m == max_datetime(Tail(dts)) IN IF DatetimeLess(dts[1], m) THEN m ELSE dts[1]

\* Patient.get_last_period: max() of an empty list raises ValueError, which
\* neither get_last_period nor the patient_dashboard route catches; the date
\* text returned is the one item of dates
get_last_period(p) ==
    LET dts == period_dates(get_all_questions(p)) IN
    IF dts = <<>>
    THEN [NoResult EXCEPT !.op = "get_last_period", !.status = "ValueError"]
    ELSE [NoResult EXCEPT !.op = "get_last_period", !.status = "last_period",
                          !.dates = <<strftime(max_datetime(dts))>>]

----------------------------------------------------------------------------
(* Specification of the aggregator: the documents of one patient are drawn  *)
(* from the bounded sets below and the aggregator's methods are called.     *)

RECURSIVE SeriesOfLen(_)
SeriesOfLen(n) ==
    IF n = 0 THEN {<<>>}
    ELSE UNION { { Append(s, <<d, v>>) :
                      d \in Dates \ {s[i][1] : i \in DOMAIN s}, v \in Values } :
                 s \in SeriesOfLen(n - 1) }

\* the lh_values / fsh_values documents of a collection: none, or one
\* document mapping distinct dates to values in any stored order
SeriesCollections ==
    {<<>>} \cup UNION { {<<s>> : s \in SeriesOfLen(n)} : n \in 0..MaxSeries }

Answers == [on_period : {"Yes", "No"}, flow_rate : {"Light", "Heavy"},
            hair : {"None"}, pain : {"3"}]

Entries == [date : Dates, questions : Answers]

\* the questions documents of a collection, in any stored order
SurveyLists == UNION { [1..n -> Entries] : n \in 0..MaxSurveys }

InitPatient ==
    /\ InitRoster
    /\ result = NoResult
    /\ \/ \E lh \in SeriesCollections :
             patients = ("p1" :> Collection(<<"details">>, lh, <<>>, <<>>))
       \/ \E fsh \in SeriesCollections :
             patients = ("p1" :> Collection(<<"details">>, <<>>, fsh, <<>>))
       \/ \E q \in SurveyLists :
             patients = ("p1" :> Collection(<<"details">>, <<>>, <<>>, q))

GetRange ==
    /\ \E p \in DOMAIN patients, metric \in Metrics : result' = get_range(p, metric)
    /\ UNCHANGED <<provVars, patients>>

GetChart ==
    /\ \E p \in DOMAIN patients, metric \in Metrics : result' = get_chart(p, metric)
    /\ UNCHANGED <<provVars, patients>>

GetSurveysOverview ==
    /\ \E p \in DOMAIN patients : result' = get_surveys_overview(p)
    /\ UNCHANGED <<provVars, patients>>

GetLastPeriod ==
    /\ \E p \in DOMAIN patients : result' = get_last_period(p)
    /\ UNCHANGED <<provVars, patients>>

NextPatient == GetRange \/ GetChart \/ GetSurveysOverview \/ GetLastPeriod

SpecPatient == InitPatient /\ [][NextPatient]_vars


----------------------------------------------------------------------------
(* Properties of the aggregator *)

\* the floats of a stored series, as a set
FloatsOf(data) == {float(data[i][2]) : i \in DOMAIN data}

\* calendar order of two date texts, read off their fields
CalendarBefore(a, b) ==
    a[3] * 10000 + a[1] * 100 + a[2] < b[3] * 10000 + b[1] * 100 + b[2]

\* C8: get_range(metric) returns [min, max] of the values of a series
\* document that exists and is not empty, and the sentinel pair both when
\* the document is absent and when its mapping is empty; it fails in
\* neither case.
C8_RangeOrSentinel ==
    result.op = "get_range" =>
        LET docs == SeriesDocuments("p1", result.metric) IN
        IF docs # <<>> /\ docs[1] # <<>>
        THEN /\ result.status = "range"
             /\ result.range[1] \in FloatsOf(docs[1])
             /\ result.range[2] \in FloatsOf(docs[1])
             /\ \A x \in FloatsOf(docs[1]) :
                   result.range[1] <= x /\ x <= result.range[2]
        ELSE result.status = "n/a"

\* C9: the dates and values that get_chart hands to the chart for a series
\* document of N pairs are N pairs, each date with its own value, in
\* ascending calendar order.
C9_ChartSortedByDate ==
    (result.op = "get_chart" /\ SeriesDocuments("p1", result.metric) # <<>>) =>
        LET data == SeriesDocuments("p1", result.metric)[1] IN
        /\ result.status = "chart"
        /\ Len(result.dates) = Len(data)
        /\ Len(result.vals) = Len(data)
        /\ \A i \in DOMAIN result.dates :
              \E j \in DOMAIN data :
                 /\ strftime(result.dates[i]) = data[j][1]
                 /\ result.vals[i] = float(data[j][2])
        /\ \A i, j \in DOMAIN result.dates :
              i < j => CalendarBefore(strftime(result.dates[i]), strftime(result.dates[j]))

DistinctDates(entries) ==
    \A i, j \in DOMAIN entries : i # j => entries[i].date # entries[j].date

\* C10: for survey entries of distinct dates, stored in any order,
\* get_surveys_overview returns one record per entry, latest calendar date
\* first, whose flow_rate is "n/a" when the entry's period answer is not
\* "Yes" and the entry's stored flow rate otherwise.
C10_OverviewLatestFirst ==
    (result.op = "get_surveys_overview" /\ DistinctDates(patients["p1"].questions)) =>
        LET entries == patients["p1"].questions
            surveys == result.surveys
        IN
        /\ Len(surveys) = Len(entries)
        /\ \A i, j \in DOMAIN surveys :
              i < j => CalendarBefore(surveys[j].date, surveys[i].date)
        /\ \A i \in DOMAIN surveys :
              \E j \in DOMAIN entries :
                 /\ surveys[i].date = entries[j].date
                 /\ surveys[i].period = entries[j].questions.on_period
                 /\ surveys[i].flow_rate =
                       IF entries[j].questions.on_period # "Yes" THEN "n/a"
                       ELSE entries[j].questions.flow_rate
                 /\ surveys[i].hair_changes = entries[j].questions.hair
                 /\ surveys[i].pain_level = entries[j].questions.pain

\* three entries stored as 01-15-2024, 12-31-2023, 03-01-2024, the middle
\* one not on period, come back as 03-01-2024, 01-15-2024, 12-31-2023
C10_Witness ==
    /\ result.op = "get_surveys_overview"
    /\ Len(patients["p1"].questions) = 3
    /\ patients["p1"].questions[1].date = <<1, 15, 2024>>
    /\ patients["p1"].questions[2].date = <<12, 31, 2023>>
    /\ patients["p1"].questions[3].date = <<3, 1, 2024>>
    /\ patients["p1"].questions[2].questions.on_period = "No"
    /\ patients["p1"].questions[3].questions.on_period = "Yes"
    /\ Len(result.surveys) = 3
    /\ result.surveys[1].date = <<3, 1, 2024>>
    /\ result.surveys[3].date = <<12, 31, 2023>>
    /\ result.surveys[3].flow_rate = "n/a"
    /\ result.surveys[1].flow_rate = "Heavy"


\* the dates of the stored entries whose on-period answer is "Yes"
PeriodDates(entries) ==
    {entries[i].date : i \in {j \in DOMAIN entries : entries[j].questions.on_period = "Yes"}}

\* C11: for survey entries of distinct dates, get_last_period returns the
\* calendar-latest date among the entries whose on-period answer is "Yes",
\* whatever later entries answer otherwise, and fails with NotFoundError
\* when no entry answers "Yes".
C11_LastPeriodOrNotFound ==
    (result.op = "get_last_period" /\ DistinctDates(patients["p1"].questions)) =>
        LET on == PeriodDates(patients["p1"].questions) IN
        IF on = {}
        THEN result.status = "NotFoundError"
        ELSE /\ result.status = "last_period"
             /\ result.dates[1] \in on
             /\ \A d \in on : d = result.dates[1] \/ CalendarBefore(d, result.dates[1])

=============================================================================
